---- MODULE Spec2Model ----
(***************************************************************************)
(* Model of apps/filetypes/scraper/scripts/fetch_zyte_api.py: a pool of    *)
(* asyncio tasks (run_one), one per URL, bounded by a semaphore, paced by  *)
(* a global throttle (throttle), fetching through an HTTP client and       *)
(* persisting the decoded body in a content-addressed cache (fetch).       *)
(*                                                                         *)
(* Time is the monotonic clock in ticks of 0.25 s.  Strings and bytes are  *)
(* sequences of code points / byte values.  JSON values are records with   *)
(* a tag t: "str" (field s), "num", "null", "dict" (field f, a function    *)
(* from field names to JSON values).                                       *)
(***************************************************************************)
EXTENDS Integers, Sequences, FiniteSets, TLC

(* ------------------------------ bounds --------------------------------- *)

\* Longest URL list handed to the pool.
MaxTasks == 3

\* The clock runs freely up to MaxTime (and further only to let a sleeper wake).
MaxTime == 3

\* Number of consecutive runs of the process over the same list and cache,
\* and the longest list that is run again.
MaxRuns == 2

MaxRerunTasks == 2

\* Largest configured concurrency limit (ZYTE_CONCURRENCY).
MaxConcurrency == 2

\* Largest configured jitter ceiling (ZYTE_JITTER), in ticks.
MaxJitter == 1

\* Longest text of urls.txt that is parsed character by character.
MaxTextLen == 4

(* ------------------------- program constants --------------------------- *)

\* One second of the monotonic clock, in ticks.
TicksPerSecond == 4

\* The default of ZYTE_RPS (line 19).
DefaultRps == 2

\* httpx.AsyncHTTPTransport(retries=3) (line 92).
RETRIES == 3

VARIABLES
    text,             \* the content of urls.txt
    url_text,         \* main: `urls`, the stripped non-blank lines of urls.txt
    urls,             \* the same list, each URL under its name 1, 2, ...
    API_KEY,          \* os.environ.get("ZYTE_API_KEY")
    startup,          \* how the start of the process ended: "ok", or the exception
    CONCURRENCY,      \* configured concurrency limit
    JITTER,           \* configured jitter ceiling (0 = disabled)
    ZYTE_RPS,         \* os.environ: the requests-per-second setting
    ZYTE_MIN_INTERVAL,\* os.environ: the minimum interval set directly
    MIN_INTERVAL,     \* minimum interval between sends, in ticks
    run,              \* which run of the process this is
    clock,            \* time.monotonic()
    next_send_time,   \* _next_send_time
    lock_holder,      \* _throttle_lock: the task inside it (0 = unlocked)
    lock_waiters,     \* _throttle_lock: FIFO of tasks waiting to acquire
    sem_value,        \* sem: free slots
    sem_waiters,      \* sem: FIFO of tasks waiting for a slot
    cache,            \* RAW directory: key -> file
    pc,               \* where each run_one task is
    now,              \* throttle's local `now` of each task (-1: not set)
    wait,             \* throttle's local `wait` of each task
    content,          \* fetch's local `content` of each task
    report,           \* the line run_one printed for each task
    printed,          \* how many ok/fail lines run_one printed for each task
    aborted,          \* an exception left run_one and ended asyncio.run
    running,          \* the task the event loop is executing (0 = none)
    retry_at,         \* transport: when the task's connection retry is due (-1: none)
    \* history of the run, read only by the properties
    cache0,           \* the cache as it was when the run started
    cached_at_check,  \* whether the entry was non-empty when the task checked
    throttle_calls,   \* number of throttle() calls the task made
    last_auth,        \* clock at which throttle() last returned (-1: never)
    prev_auth,        \* clock at which it returned the time before (-1: never)
    sent,             \* number of client.post calls the task made
    resp,             \* what client.post gave the task
    failed_at,        \* stage at which the task's exception was raised
    file_ops,         \* number of open/write operations the task did on the cache
    ticket,           \* how many throttle() calls began before the task's (-1: not in it)
    attempts,         \* number of request attempts made for the task
    last_attempt      \* clock of the latest request attempt (-1: never)

\* What the process reads once, at its start.
config == <<text, url_text, urls, API_KEY, startup, CONCURRENCY, JITTER, ZYTE_RPS,
            ZYTE_MIN_INTERVAL, MIN_INTERVAL>>

vars == <<text, url_text, urls, API_KEY, startup, CONCURRENCY, JITTER, ZYTE_RPS,
          ZYTE_MIN_INTERVAL, MIN_INTERVAL, run, clock, next_send_time, lock_holder,
          lock_waiters, sem_value, sem_waiters, cache, pc, now, wait, content,
          report, printed, aborted, running, retry_at, cache0, cached_at_check, throttle_calls,
          last_auth, prev_auth, sent, resp, failed_at, file_ops, ticket, attempts,
          last_attempt>>

(* ------------------------------ values --------------------------------- *)

Max(a, b) == IF a >= b THEN a ELSE b

\* sum(f) for a list f of numbers
RECURSIVE TotalTo(_, _)
TotalTo(f, n) == IF n = 0 THEN 0 ELSE f[n] + TotalTo(f, n - 1)

Total(f) == TotalTo(f, Cardinality(DOMAIN f))

JStr(s) == [t |-> "str", s |-> s]
JNum == [t |-> "num"]
JNull == [t |-> "null"]
JDict(f) == [t |-> "dict", f |-> f]

\* "aGVsbG8=", the base64 text of "hello"
StrHelloB64 == <<97, 71, 86, 115, 98, 71, 56, 61>>
\* "hello"
BytesHello == <<104, 101, 108, 108, 111>>
\* "\n": a text with no character of the base64 alphabet
StrNewline == <<10>>
\* "err"
StrErr == <<101, 114, 114>>

(* ------------------- Python values and the decoder --------------------- *)

\* bool(v): Python truthiness of a JSON value.
Truthy(v) ==
    CASE v.t = "str" -> v.s # <<>>
      [] v.t = "num" -> TRUE
      [] v.t = "dict" -> DOMAIN v.f # {}
      [] OTHER -> FALSE

\* d.get(k): the field, or None.
Get(d, k) == IF k \in DOMAIN d.f THEN d.f[k] ELSE JNull

\* a or b
PyOr(a, b) == IF Truthy(a) THEN a ELSE b

\* Value of a character in the base64 alphabet; 64 for any other character.
B64Val(c) ==
    IF c >= 65 /\ c <= 90 THEN c - 65
    ELSE IF c >= 97 /\ c <= 122 THEN c - 71
    ELSE IF c >= 48 /\ c <= 57 THEN c + 4
    ELSE IF c = 43 THEN 62
    ELSE IF c = 47 THEN 63
    ELSE 64

\* binascii.a2b_base64, non-strict: characters outside the alphabet are
\* skipped, a completed pad sequence ends the parse, and a dangling quad is
\* an error.
RECURSIVE A2B(_, _, _, _, _, _)
A2B(s, i, quad, left, pads, out) ==
    IF i > Len(s) THEN [ok |-> quad = 0, bytes |-> out]
    ELSE IF s[i] = 61 THEN
        IF quad >= 2 /\ quad + pads + 1 >= 4 THEN [ok |-> TRUE, bytes |-> out]
        ELSE A2B(s, i + 1, quad, left, IF quad >= 2 THEN pads + 1 ELSE pads, out)
    ELSE IF B64Val(s[i]) >= 64 THEN A2B(s, i + 1, quad, left, pads, out)
    ELSE LET v == B64Val(s[i]) IN
        CASE quad = 0 -> A2B(s, i + 1, 1, v, 0, out)
          [] quad = 1 -> A2B(s, i + 1, 2, v % 16, 0, Append(out, (left * 4) + (v \div 16)))
          [] quad = 2 -> A2B(s, i + 1, 3, v % 4, 0, Append(out, (left * 16) + (v \div 4)))
          [] OTHER -> A2B(s, i + 1, 0, 0, 0, Append(out, (left * 64) + v))

\* base64.b64decode(s) for a str s: ValueError when s is not ASCII, else
\* a2b_base64.  ok = FALSE stands for the exception.
B64Decode(s) ==
    IF \E i \in 1..Len(s) : s[i] >= 128 THEN [ok |-> FALSE, bytes |-> <<>>]
    ELSE A2B(s, 1, 0, 0, 0, <<>>)

\* str.encode(): UTF-8 (code points below 2048).
RECURSIVE Utf8(_)
Utf8(s) ==
    IF s = <<>> THEN <<>>
    ELSE (IF Head(s) < 128 THEN <<Head(s)>>
          ELSE <<192 + (Head(s) \div 64), 128 + (Head(s) % 64)>>) \o Utf8(Tail(s))

\* Mutant of the decoding: the rendered page is taken whenever it is there.
BodyB64PageFirst(data) ==
    IF "browserHtml" \in DOMAIN data.f THEN data.f["browserHtml"]
    ELSE IF "httpResponseBody" \in DOMAIN data.f
    THEN LET h == data.f["httpResponseBody"] IN
         IF h.t = "str" THEN h
         ELSE IF h.t = "dict" THEN PyOr(Get(h, "data"), Get(h, "text"))
         ELSE JNull
    ELSE JNull

\* fetch, lines 63-72: the value picked as body_b64 from a dict envelope.
BodyB64(data) ==
    LET fromBody ==
            IF "httpResponseBody" \in DOMAIN data.f
            THEN LET h == data.f["httpResponseBody"] IN
                 IF h.t = "str" THEN h
                 ELSE IF h.t = "dict" THEN PyOr(Get(h, "data"), Get(h, "text"))
                 ELSE JNull
            ELSE JNull
    IN  IF ~Truthy(fromBody) /\ "browserHtml" \in DOMAIN data.f
        THEN data.f["browserHtml"]
        ELSE fromBody

\* Mutant of the decoding: the `except Exception` fallback is missing, a
\* text that b64decode rejects gives no bytes.
ContentOfNoFallback(body) ==
    IF body.t = "str" /\ B64Decode(body.s).ok
    THEN [bytes |-> TRUE, data |-> B64Decode(body.s).bytes]
    ELSE [bytes |-> FALSE, data |-> <<>>]

\* fetch, lines 79-82: content from body_b64.  A value that is not a str
\* makes b64decode raise, and is then kept as it is (bytes |-> FALSE: the
\* later f.write(content) raises TypeError).
ContentOf(body) ==
    IF body.t = "str"
    THEN LET r == B64Decode(body.s) IN
         [bytes |-> TRUE, data |-> IF r.ok THEN r.bytes ELSE Utf8(body.s)]
    ELSE [bytes |-> FALSE, data |-> <<>>]

\* Mutant of the decoding: a bare string response is taken as the body.
DecodeStringAsBody(data) ==
    IF data.t = "str" THEN [kind |-> "write", content |-> ContentOf(data)]
    ELSE IF data.t # "dict" THEN [kind |-> "raise", content |-> ContentOf(JNull)]
    ELSE IF ~Truthy(BodyB64(data)) THEN [kind |-> "return", content |-> ContentOf(JNull)]
    ELSE [kind |-> "write", content |-> ContentOf(BodyB64(data))]

\* Mutant of the decoding: the `if not body_b64` return is missing.
DecodeNoBodyCheck(data) ==
    IF data.t = "str" THEN [kind |-> "return", content |-> ContentOf(JNull)]
    ELSE IF data.t # "dict" THEN [kind |-> "raise", content |-> ContentOf(JNull)]
    ELSE [kind |-> "write", content |-> ContentOf(BodyB64(data))]

\* fetch, lines 57-82, for the parsed JSON `data`: what fetch does next.
\*   "raise"  - `"httpResponseBody" in data` on a value that is no container
\*   "return" - one of the two [warn] returns
\*   "write"  - go on to persist `content`
Decode(data) ==
    IF data.t = "str" THEN [kind |-> "return", content |-> ContentOf(JNull)]
    ELSE IF data.t # "dict" THEN [kind |-> "raise", content |-> ContentOf(JNull)]
    ELSE IF ~Truthy(BodyB64(data)) THEN [kind |-> "return", content |-> ContentOf(JNull)]
    ELSE [kind |-> "write", content |-> ContentOf(BodyB64(data))]

(* ------------------------- inputs and the cache ------------------------ *)

\* URLs are opaque strings, named 1, 2, ...  A list is taken up to renaming
\* of its URLs: the k-th distinct URL of a list is URL k.  The same URL may
\* occur on several lines.
UrlLists ==
    { l \in UNION { [1..n -> 1..MaxTasks] : n \in 1..MaxTasks } :
        \A i \in DOMAIN l :
            l[i] <= 1 + Cardinality({ l[j] : j \in 1..(i - 1) }) }

\* Path.read_text(): the file is read with universal newlines, "\r\n" and
\* "\r" come out as "\n".
RECURSIVE ReadText(_)
ReadText(s) ==
    IF s = <<>> THEN <<>>
    ELSE IF Head(s) = 13
    THEN <<10>> \o ReadText(IF Len(s) >= 2 /\ s[2] = 10 THEN Tail(Tail(s)) ELSE Tail(s))
    ELSE <<Head(s)>> \o ReadText(Tail(s))

\* The characters at which str.splitlines() ends a line (up to U+2029).
IsLineBoundary(c) == c \in {10, 11, 12, 13, 28, 29, 30, 133, 8232, 8233}

\* The characters that str.strip() removes (up to U+3000).
IsSpace(c) ==
    c \in {9, 10, 11, 12, 13, 28, 29, 30, 31, 32, 133, 160, 5760, 8232, 8233,
           8239, 8287, 12288} \cup (8192..8202)

\* str.splitlines(): the lines without their ends; "\r\n" is one end, and
\* no empty line follows the last end.
RECURSIVE SplitLinesFrom(_, _, _)
SplitLinesFrom(s, i, cur) ==
    IF i > Len(s) THEN (IF cur = <<>> THEN <<>> ELSE <<cur>>)
    ELSE IF IsLineBoundary(s[i])
    THEN <<cur>> \o SplitLinesFrom(s, IF s[i] = 13 /\ i < Len(s) /\ s[i + 1] = 10
                                      THEN i + 2 ELSE i + 1, <<>>)
    ELSE SplitLinesFrom(s, i + 1, Append(cur, s[i]))

SplitLines(s) == SplitLinesFrom(s, 1, <<>>)

RECURSIVE LStrip(_)
LStrip(s) == IF s # <<>> /\ IsSpace(Head(s)) THEN LStrip(Tail(s)) ELSE s

RECURSIVE RStrip(_)
RStrip(s) ==
    IF s # <<>> /\ IsSpace(s[Len(s)]) THEN RStrip(SubSeq(s, 1, Len(s) - 1)) ELSE s

\* Mutant of the parsing: only the leading whitespace is removed.
StripLeftOnly(s) == LStrip(s)

\* str.strip()
Strip(s) == RStrip(LStrip(s))

\* main, line 88: [u.strip() for u in URLS.read_text().splitlines() if u.strip()]
ReadUrls(file) ==
    LET lines == SplitLines(ReadText(file))
        stripped == [i \in DOMAIN lines |-> Strip(lines[i])]
    IN  SelectSeq(stripped, LAMBDA u : u # <<>>)

\* The list with each URL replaced by its name: the k-th distinct URL is k.
NameUrls(l) ==
    [i \in DOMAIN l |->
        LET first == CHOOSE j \in 1..i : l[j] = l[i] /\ \A k \in 1..(j - 1) : l[k] # l[i]
        IN  Cardinality({ l[k] : k \in 1..first })]

\* A urls.txt that holds the list l: URL k is written as the k-th letter,
\* one URL per line.
RECURSIVE TextOf(_)
TextOf(l) == IF l = <<>> THEN <<>> ELSE <<96 + Head(l), 10>> \o TextOf(Tail(l))

\* Every urls.txt of up to MaxTextLen characters out of "a", "b", " ", "\n",
\* "\r" and form feed (at which splitlines ends a line too).
TextChars == {97, 98, 32, 10, 13, 12}
Texts == UNION { [1..n -> TextChars] : n \in 0..MaxTextLen }

Tasks == DOMAIN urls

\* key = sha1(url)[:16]: a function of the URL alone, distinct for the
\* distinct URLs of the model.
Key(url) == <<"sha1", url>>

Keys == { Key(u) : u \in 1..MaxTasks }

NoFile == [exists |-> FALSE, data |-> <<>>]

\* Mutants of the cache check: the size test inverted; small files taken
\* for incomplete.
HasInvertedSize(k) == cache[k].exists /\ Len(cache[k].data) = 0

HasLargeOnly(k) == cache[k].exists /\ Len(cache[k].data) > Len(BytesHello)

\* fn.exists() and fn.stat().st_size > 0
Has(k) == cache[k].exists /\ Len(cache[k].data) > 0

(* ------------------------------ transport ------------------------------ *)

NotJson == [t |-> "invalid"]

\* {"httpResponseBody": "aGVsbG8="}
EnvHello == JDict([httpResponseBody |-> JStr(StrHelloB64)])
\* {"url": "..."}: neither a body field nor a rendered-page field
EnvUnknown == JDict([url |-> JStr(StrErr)])
\* a bare JSON string
EnvString == JStr(StrErr)
\* {"httpResponseBody": "\n"}
EnvBlank == JDict([httpResponseBody |-> JStr(StrNewline)])

\* The bodies the API answers with in the pool's runs.
Envelopes == {EnvHello, EnvUnknown, EnvString, EnvBlank}

NoResp == [kind |-> "none"]
NetError == [kind |-> "error"]
Response(status, body) == [kind |-> "response", status |-> status, body |-> body]

\* What `await client.post(...)` can give: an exception of the transport
\* (connection failure, timeout), or a response with a status and a body.
Outcomes ==
    {NetError, Response(404, JNull)} \cup { Response(200, e) : e \in Envelopes }

\* "" and a text that is not ASCII ("\u00e9"), and "<p>" and "<html>", two
\* rendered pages
StrEmpty == <<>>
StrNonAscii == <<233>>
StrHtml == <<60, 112, 62>>
StrHtmlDoc == <<60, 104, 116, 109, 108, 62>>

\* The envelopes of the decoder's cases: a body field that is a string, an
\* object with data and text sub-fields, null or a number; a rendered-page
\* field; both; neither; and a response that is no object.
BodyStrings == {StrEmpty, StrHelloB64, StrNewline, StrErr, StrNonAscii}
SubFields == {JNull, JNum} \cup { JStr(x) : x \in {StrEmpty, StrHelloB64, StrErr} }
BodyFields ==
    {JNull, JNum} \cup { JStr(x) : x \in BodyStrings }
    \cup { JDict(f) : f \in UNION { [D -> SubFields] : D \in SUBSET {"data", "text"} } }
PageFields == { JStr(x) : x \in {StrEmpty, StrHtml, StrHtmlDoc, StrHelloB64} }
DecoderEnvelopes ==
    { JDict([httpResponseBody |-> h, browserHtml |-> b]) : h \in BodyFields, b \in PageFields }
    \cup { JDict([httpResponseBody |-> h]) : h \in BodyFields }
    \cup { JDict([browserHtml |-> b]) : b \in PageFields }
    \cup {EnvUnknown, EnvString, JNum}
DecoderOutcomes == { Response(200, e) : e \in DecoderEnvelopes }

\* r.raise_for_status() raises for 4xx and 5xx.
RaisesForStatus(status) == status >= 400

(* ------------------------------ run_one -------------------------------- *)

\* Mutant of run_one: a task whose fetch raised goes back to the throttle
\* and sends again.
RaiseThenRetry(t, exc, stage) ==
    /\ failed_at' = [failed_at EXCEPT ![t] = stage]
    /\ aborted' = FALSE
    /\ pc' = [pc EXCEPT ![t] = "lock"]
    /\ UNCHANGED <<report, printed, sem_value, sem_waiters>>

\* Mutant of run_one: the `except Exception` clause is missing.
CaughtStatusOnly(exc) == exc = "HTTPStatusError"

\* The except clauses of run_one: httpx.HTTPStatusError, then Exception.
Caught(exc) == exc = "HTTPStatusError" \/ exc = "Exception"

\* Mutant of run_one: the semaphore never makes a task wait.
SemLockedNever == FALSE

\* sem.locked(): no free slot, or somebody already queued.
SemLocked == sem_value = 0 \/ sem_waiters # <<>>

\* Mutant of run_one: the task ends without printing its line.
FinishPrintsNothing(t, line) ==
    /\ report' = report
    /\ printed' = printed
    /\ IF sem_waiters = <<>>
       THEN /\ sem_value' = sem_value + 1
            /\ sem_waiters' = sem_waiters
            /\ pc' = [pc EXCEPT ![t] = "done"]
       ELSE /\ sem_value' = sem_value
            /\ sem_waiters' = Tail(sem_waiters)
            /\ pc' = [pc EXCEPT ![t] = "done", ![Head(sem_waiters)] = "check"]

\* Mutant of run_one: a task that ends with a fail line keeps its slot.
FinishKeepsSlotOnFail(t, line) ==
    /\ report' = [report EXCEPT ![t] = line]
    /\ printed' = [printed EXCEPT ![t] = IF line = "none" THEN @ ELSE @ + 1]
    /\ IF line = "fail"
       THEN /\ sem_value' = sem_value
            /\ sem_waiters' = sem_waiters
            /\ pc' = [pc EXCEPT ![t] = "done"]
       ELSE IF sem_waiters = <<>>
       THEN /\ sem_value' = sem_value + 1
            /\ sem_waiters' = sem_waiters
            /\ pc' = [pc EXCEPT ![t] = "done"]
       ELSE /\ sem_value' = sem_value
            /\ sem_waiters' = Tail(sem_waiters)
            /\ pc' = [pc EXCEPT ![t] = "done", ![Head(sem_waiters)] = "check"]

\* Mutant of the semaphore: a released slot wakes nobody.
FinishWakesNobody(t, line) ==
    /\ report' = [report EXCEPT ![t] = line]
    /\ printed' = [printed EXCEPT ![t] = IF line = "none" THEN @ ELSE @ + 1]
    /\ sem_value' = sem_value + 1
    /\ sem_waiters' = sem_waiters
    /\ pc' = [pc EXCEPT ![t] = "done"]

\* Leaving `async with sem` after printing `line`: the slot goes to the
\* first waiter, who proceeds into fetch, or back to the semaphore.
Finish(t, line) ==
    /\ report' = [report EXCEPT ![t] = line]
    /\ printed' = [printed EXCEPT ![t] = IF line = "none" THEN @ ELSE @ + 1]
    /\ IF sem_waiters = <<>>
       THEN /\ sem_value' = sem_value + 1
            /\ sem_waiters' = sem_waiters
            /\ pc' = [pc EXCEPT ![t] = "done"]
       ELSE /\ sem_value' = sem_value
            /\ sem_waiters' = Tail(sem_waiters)
            /\ pc' = [pc EXCEPT ![t] = "done", ![Head(sem_waiters)] = "check"]

\* An exception of class exc raised in fetch at `stage`: run_one prints a
\* fail line when an except clause catches it; otherwise it leaves run_one
\* and gather, and asyncio.run ends the process.
Raise(t, exc, stage) ==
    /\ failed_at' = [failed_at EXCEPT ![t] = stage]
    /\ aborted' = ~Caught(exc)
    /\ Finish(t, IF Caught(exc) THEN "fail" ELSE "none")

\* gap: MIN_INTERVAL, plus random.uniform(0, JITTER) when JITTER is set
\* (a value between JITTER and 0 when JITTER is negative).
Gaps ==
    IF JITTER = 0 THEN {MIN_INTERVAL}
    ELSE { MIN_INTERVAL + j : j \in (IF JITTER < 0 THEN JITTER ELSE 0)..Max(0, JITTER) }

\* Mutant of throttle: the next slot is counted from `now` alone.
NextSendTimeFromNow(n, old, gap) == n + gap

\* Mutant of throttle: the next slot is counted from the old one alone.
NextSendTimeFromOld(n, old, gap) == old + gap

\* _next_send_time = max(now, _next_send_time) + gap
NextSendTime(n, old, gap) == Max(n, old) + gap

\* Mutant of throttle: the wait is always 0, the caller never sleeps.
WaitForNothing(n) == 0

\* wait = max(0.0, _next_send_time - now)
WaitFor(n) == Max(0, next_send_time - n)

\* Mutant of the lock: the waiter that came last becomes the holder.
LockReleaseLast(t, next) ==
    IF lock_waiters = <<>>
    THEN /\ lock_holder' = 0
         /\ lock_waiters' = lock_waiters
         /\ pc' = [pc EXCEPT ![t] = next]
    ELSE /\ lock_holder' = lock_waiters[Len(lock_waiters)]
         /\ lock_waiters' = SubSeq(lock_waiters, 1, Len(lock_waiters) - 1)
         /\ pc' = [pc EXCEPT ![t] = next, ![lock_waiters[Len(lock_waiters)]] = "throttle"]

\* Leaving `async with _throttle_lock`: the first waiter becomes the holder.
LockRelease(t, next) ==
    IF lock_waiters = <<>>
    THEN /\ lock_holder' = 0
         /\ lock_waiters' = lock_waiters
         /\ pc' = [pc EXCEPT ![t] = next]
    ELSE /\ lock_holder' = Head(lock_waiters)
         /\ lock_waiters' = Tail(lock_waiters)
         /\ pc' = [pc EXCEPT ![t] = next, ![Head(lock_waiters)] = "throttle"]

\* The end of throttle() for a task that read the clock as n, and the
\* client.post call that follows its return without suspension.
ThrottleExit(t, n) ==
    /\ \E gap \in Gaps : next_send_time' = NextSendTime(n, next_send_time, gap)
    /\ LockRelease(t, "post")
    /\ last_auth' = clock
    /\ prev_auth' = last_auth
    /\ sent' = [sent EXCEPT ![t] = @ + 1]
    /\ attempts' = [attempts EXCEPT ![t] = @ + 1]
    /\ last_attempt' = clock
    /\ ticket' = [ticket EXCEPT ![t] = -1]
    /\ now' = [now EXCEPT ![t] = -1]
    /\ wait' = [wait EXCEPT ![t] = 0]

(* ------------------------------ startup -------------------------------- *)

\* "k": an API key
StrKey == <<107>>

\* The text of a numeric setting: a number, or text that is no number; and
\* a setting that is not in the environment.
Num(n) == [num |-> TRUE, v |-> n]
NonNumeric == [num |-> FALSE, v |-> 0]
Unset == [num |-> FALSE, v |-> -1]

\* Lines 19-20: REQUESTS_PER_SECOND = float(ZYTE_RPS or "2"), then
\* MIN_INTERVAL = float(os.environ.get("ZYTE_MIN_INTERVAL", str(1.0 /
\* REQUESTS_PER_SECOND))).  The default, an argument of get, is computed
\* whether or not ZYTE_MIN_INTERVAL is set.  Intervals are in ticks.
MinInterval(rps, mi) ==
    LET r == IF rps = Unset THEN Num(DefaultRps) ELSE rps IN
    IF ~r.num THEN [exc |-> "ValueError", v |-> 0]
    ELSE IF r.v = 0 THEN [exc |-> "ZeroDivisionError", v |-> 0]
    ELSE IF mi = Unset THEN [exc |-> "none", v |-> TicksPerSecond \div r.v]
    ELSE IF ~mi.num THEN [exc |-> "ValueError", v |-> 0]
    ELSE [exc |-> "none", v |-> mi.v]

\* Mutant of the startup: only an absent key is refused, an empty one is not.
StartupAbsentKeyOnly(key, c, j, i) ==
    IF key = JNull THEN "SystemExit"
    ELSE IF ~c.num THEN "ValueError"
    ELSE IF i.exc # "none" THEN i.exc
    ELSE IF ~j.num THEN "ValueError"
    ELSE IF c.v < 0 THEN "ValueError"
    ELSE "ok"

\* What stops the process before any task is created: `if not API_KEY`
\* (lines 7-8), int() and float() of the settings (lines 15, 19, 20, 23),
\* the division on line 20, and asyncio.Semaphore(CONCURRENCY), which
\* refuses a negative value (line 95).  i is the outcome of lines 19-20.
Startup(key, c, j, i) ==
    IF ~Truthy(key) THEN "SystemExit"
    ELSE IF ~c.num THEN "ValueError"
    ELSE IF i.exc # "none" THEN i.exc
    ELSE IF ~j.num THEN "ValueError"
    ELSE IF c.v < 0 THEN "ValueError"
    ELSE "ok"

(* ------------------------------ actions -------------------------------- *)

\* Where a task is before its throttle() call has returned.
BeforeSend == {"init", "sem_wait", "check", "lock", "lock_wait", "throttle", "sleep"}

\* The event loop runs one task at a time, from one suspension to the next:
\* task t may take a step when no other task is in the middle of one.
MayRun(t) == startup = "ok" /\ ~aborted /\ running \in {0, t}

\* The state in which main finds the process, for a urls.txt of `texts`, a
\* key of `keys` and the settings ZYTE_CONCURRENCY of `concs`, ZYTE_JITTER
\* of `jitters`, ZYTE_RPS of `rates` and ZYTE_MIN_INTERVAL of `intervals`
\* (a setting that failed to parse is kept as 0 and never read).
Start(texts, keys, concs, jitters, rates, intervals) ==
    /\ text \in texts
    /\ url_text = ReadUrls(text)
    /\ urls = NameUrls(url_text)
    /\ API_KEY \in keys
    /\ ZYTE_RPS \in rates
    /\ ZYTE_MIN_INTERVAL \in intervals
    /\ MIN_INTERVAL = MinInterval(ZYTE_RPS, ZYTE_MIN_INTERVAL).v
    /\ \E c \in concs, j \in jitters :
        /\ startup = Startup(API_KEY, c, j, MinInterval(ZYTE_RPS, ZYTE_MIN_INTERVAL))
        /\ CONCURRENCY = c.v
        /\ JITTER = j.v
    /\ run = 1
    /\ clock = 0
    /\ next_send_time = 0
    /\ lock_holder = 0
    /\ lock_waiters = <<>>
    /\ sem_value = CONCURRENCY
    /\ sem_waiters = <<>>
    /\ cache = [k \in Keys |-> NoFile]
    /\ pc = [t \in Tasks |-> "init"]
    /\ now = [t \in Tasks |-> -1]
    /\ wait = [t \in Tasks |-> 0]
    /\ content = [t \in Tasks |-> ContentOf(JNull)]
    /\ report = [t \in Tasks |-> "none"]
    /\ printed = [t \in Tasks |-> 0]
    /\ aborted = FALSE
    /\ running = 0
    /\ cache0 = cache
    /\ cached_at_check = [t \in Tasks |-> "none"]
    /\ throttle_calls = [t \in Tasks |-> 0]
    /\ last_auth = -1
    /\ prev_auth = -1
    /\ sent = [t \in Tasks |-> 0]
    /\ resp = [t \in Tasks |-> NoResp]
    /\ failed_at = [t \in Tasks |-> "none"]
    /\ file_ops = [t \in Tasks |-> 0]
    /\ retry_at = [t \in Tasks |-> -1]
    /\ ticket = [t \in Tasks |-> -1]
    /\ attempts = [t \in Tasks |-> 0]
    /\ last_attempt = -1

\* A process with its key set and valid settings, the rate left at its
\* default (MIN_INTERVAL = 0.5 s = 2 ticks).
Init ==
    Start({ TextOf(l) : l \in UrlLists }, {JStr(StrKey)},
          { Num(c) : c \in 1..MaxConcurrency }, { Num(j) : j \in 0..MaxJitter },
          {Unset}, {Unset})

\* run_one(u) starts, in the order gather was given the coroutines, and
\* enters `async with sem`: it takes a slot, or queues and suspends.
RunOne(t) ==
    /\ MayRun(t)
    /\ pc[t] = "init"
    /\ \A j \in Tasks : j < t => pc[j] # "init"
    /\ IF SemLocked
       THEN /\ sem_waiters' = Append(sem_waiters, t)
            /\ sem_value' = sem_value
            /\ pc' = [pc EXCEPT ![t] = "sem_wait"]
            /\ running' = 0
       ELSE /\ sem_value' = sem_value - 1
            /\ sem_waiters' = sem_waiters
            /\ pc' = [pc EXCEPT ![t] = "check"]
            /\ running' = t
    /\ UNCHANGED <<config, retry_at, ticket, attempts, last_attempt, run, clock, next_send_time,
                   lock_holder, lock_waiters, cache, now, wait, content, report, printed,
                   aborted, cache0, cached_at_check, throttle_calls, last_auth,
                   prev_auth, sent, resp, failed_at, file_ops>>

\* fetch, lines 46-49: the cache check; a hit returns, and run_one prints ok.
CacheCheck(t) ==
    /\ MayRun(t)
    /\ pc[t] = "check"
    /\ cached_at_check' =
         [cached_at_check EXCEPT ![t] =
            IF cache[Key(urls[t])].exists /\ cache[Key(urls[t])].data # <<>>
            THEN "yes" ELSE "no"]
    /\ IF Has(Key(urls[t]))
       THEN /\ Finish(t, "ok")
            /\ running' = 0
       ELSE /\ pc' = [pc EXCEPT ![t] = "lock"]
            /\ running' = t
            /\ UNCHANGED <<report, printed, sem_value, sem_waiters>>
    /\ UNCHANGED <<config, retry_at, ticket, attempts, last_attempt, run, clock, next_send_time,
                   lock_holder, lock_waiters, cache, now, wait, content,
                   aborted, cache0, throttle_calls, last_auth, prev_auth, sent,
                   resp, failed_at, file_ops>>

\* Mutant of throttle: the body runs without taking _throttle_lock.
LockAcquireNoLock(t) ==
    /\ MayRun(t)
    /\ pc[t] = "lock"
    /\ throttle_calls' = [throttle_calls EXCEPT ![t] = @ + 1]
    /\ ticket' = [ticket EXCEPT ![t] = Total(throttle_calls)]
    /\ lock_holder' = t
    /\ lock_waiters' = lock_waiters
    /\ pc' = [pc EXCEPT ![t] = "throttle"]
    /\ running' = t
    /\ UNCHANGED <<config, retry_at, attempts, last_attempt, run, clock,
                   next_send_time, sem_value, sem_waiters, cache, now, wait,
                   content, report, printed, aborted, cache0, cached_at_check, last_auth,
                   prev_auth, sent, resp, failed_at, file_ops>>

\* fetch, line 52, and throttle, line 32: throttle() is called and enters
\* `async with _throttle_lock`: it takes the lock, or queues and suspends.
LockAcquire(t) ==
    /\ MayRun(t)
    /\ pc[t] = "lock"
    /\ throttle_calls' = [throttle_calls EXCEPT ![t] = @ + 1]
    /\ ticket' = [ticket EXCEPT ![t] = Total(throttle_calls)]
    /\ IF lock_holder = 0
       THEN /\ lock_holder' = t
            /\ lock_waiters' = lock_waiters
            /\ pc' = [pc EXCEPT ![t] = "throttle"]
            /\ running' = t
       ELSE /\ lock_holder' = lock_holder
            /\ lock_waiters' = Append(lock_waiters, t)
            /\ pc' = [pc EXCEPT ![t] = "lock_wait"]
            /\ running' = 0
    /\ UNCHANGED <<config, retry_at, attempts, last_attempt, run, clock, next_send_time,
                   sem_value, sem_waiters, cache, now, wait, content, report, printed,
                   aborted, cache0, cached_at_check, last_auth, prev_auth, sent,
                   resp, failed_at, file_ops>>

\* throttle, lines 33-43 up to the first suspension: read the clock, compute
\* the wait; with nothing to wait for, schedule the next slot and return.
ThrottleEnter(t) ==
    /\ MayRun(t)
    /\ pc[t] = "throttle"
    /\ IF WaitFor(clock) > 0
       THEN /\ now' = [now EXCEPT ![t] = clock]
            /\ wait' = [wait EXCEPT ![t] = WaitFor(clock)]
            /\ pc' = [pc EXCEPT ![t] = "sleep"]
            /\ UNCHANGED <<next_send_time, lock_holder, lock_waiters,
                           last_auth, prev_auth, sent, ticket, attempts,
                           last_attempt>>
       ELSE ThrottleExit(t, clock)
    /\ running' = 0
    /\ UNCHANGED <<config, retry_at, run, clock, sem_value,
                   sem_waiters, cache, content, report, printed, aborted, cache0,
                   cached_at_check, throttle_calls, resp, failed_at, file_ops>>

\* throttle, lines 36-43: asyncio.sleep(wait) is over, not before its
\* deadline and possibly after it; schedule the next slot and return.
Wake(t) ==
    /\ MayRun(t)
    /\ pc[t] = "sleep"
    /\ clock >= now[t] + wait[t]
    /\ ThrottleExit(t, now[t])
    /\ running' = 0
    /\ UNCHANGED <<config, retry_at, run, clock, sem_value,
                   sem_waiters, cache, content, report, printed, aborted, cache0,
                   cached_at_check, throttle_calls, resp, failed_at, file_ops>>

\* fetch, lines 55-84: client.post returns or raises; then, without
\* suspension, raise_for_status, r.json() and the decoding, up to the call
\* of aiofiles.open.
PostReturnFrom(t, outcomes) ==
    /\ MayRun(t)
    /\ pc[t] = "post"
    /\ \E o \in outcomes :
        /\ resp' = [resp EXCEPT ![t] = o]
        /\ IF o.kind = "error"
           THEN Raise(t, "Exception", "post") /\ content' = content
           ELSE IF RaisesForStatus(o.status)
           THEN Raise(t, "HTTPStatusError", "status") /\ content' = content
           ELSE IF o.body = NotJson
           THEN Raise(t, "Exception", "json") /\ content' = content
           ELSE IF Decode(o.body).kind = "raise"
           THEN Raise(t, "Exception", "decode") /\ content' = content
           ELSE IF Decode(o.body).kind = "return"
           THEN /\ Finish(t, "ok")
                /\ UNCHANGED <<content, failed_at, aborted>>
           ELSE /\ content' = [content EXCEPT ![t] = Decode(o.body).content]
                /\ pc' = [pc EXCEPT ![t] = "open"]
                /\ UNCHANGED <<report, printed, sem_value, sem_waiters, failed_at, aborted>>
    /\ running' = 0
    /\ UNCHANGED <<config, retry_at, ticket, attempts, last_attempt, run, clock, next_send_time,
                   lock_holder, lock_waiters, cache, now, wait, cache0,
                   cached_at_check, throttle_calls, last_auth, prev_auth, sent,
                   file_ops>>

PostReturn(t) == PostReturnFrom(t, Outcomes)

\* fetch, line 84: aiofiles.open(fn, "wb") creates or truncates the file,
\* or raises OSError.
OpenFile(t) ==
    /\ MayRun(t)
    /\ pc[t] = "open"
    /\ \/ /\ cache' = [cache EXCEPT ![Key(urls[t])] = [exists |-> TRUE, data |-> <<>>]]
          /\ file_ops' = [file_ops EXCEPT ![t] = @ + 1]
          /\ pc' = [pc EXCEPT ![t] = "write"]
          /\ UNCHANGED <<content, report, printed, sem_value, sem_waiters, failed_at, aborted>>
       \/ /\ Raise(t, "Exception", "open")
          /\ content' = [content EXCEPT ![t] = ContentOf(JNull)]
          /\ UNCHANGED <<cache, file_ops>>
    /\ running' = 0
    /\ UNCHANGED <<config, retry_at, ticket, attempts, last_attempt, run, clock, next_send_time,
                   lock_holder, lock_waiters, now, wait, cache0,
                   cached_at_check, throttle_calls, last_auth, prev_auth, sent,
                   resp>>

\* How many bytes of content c may have reached the file when f.write(c) or
\* the close fails: none when c is not bytes (TypeError), else any part
\* short of the whole (OSError in the middle of the write).
WrittenBeforeFailure(c) ==
    IF c.bytes /\ c.data # <<>> THEN 0..(Len(c.data) - 1) ELSE {0}

\* fetch, line 85 and the end of the `async with`: f.write(content) and the
\* close; TypeError when content is not bytes, OSError when the disk fails.
\* The file was opened in place, so what was written before the failure
\* stays in it.
WriteFile(t) ==
    /\ MayRun(t)
    /\ pc[t] = "write"
    /\ \/ /\ content[t].bytes
          /\ cache' = [cache EXCEPT ![Key(urls[t])] =
                          [exists |-> TRUE, data |-> content[t].data]]
          /\ file_ops' = [file_ops EXCEPT ![t] = @ + 1]
          /\ Finish(t, "ok")
          /\ UNCHANGED <<failed_at, aborted>>
       \/ /\ \E n \in WrittenBeforeFailure(content[t]) :
                cache' = [cache EXCEPT ![Key(urls[t])] =
                             [exists |-> TRUE, data |-> SubSeq(content[t].data, 1, n)]]
          /\ Raise(t, "Exception", "write")
          /\ UNCHANGED file_ops
    /\ content' = [content EXCEPT ![t] = ContentOf(JNull)]
    /\ running' = 0
    /\ UNCHANGED <<config, retry_at, ticket, attempts, last_attempt, run, clock, next_send_time,
                   lock_holder, lock_waiters, now, wait, cache0,
                   cached_at_check, throttle_calls, last_auth, prev_auth, sent,
                   resp>>

\* The monotonic clock advances between the steps of the tasks.  Only
\* throttle() reads it: it is left alone once no task can call throttle()
\* any more, and beyond MaxTime it advances only to end a sleep.
Tick ==
    /\ startup = "ok"
    /\ ~aborted
    /\ running = 0
    /\ \E t \in Tasks : pc[t] \in BeforeSend
    /\ \/ clock < MaxTime
       \/ \E t \in Tasks : pc[t] = "sleep" /\ clock < now[t] + wait[t]
    /\ clock' = clock + 1
    /\ UNCHANGED <<config, retry_at, ticket, attempts, last_attempt, run, next_send_time, lock_holder,
                   lock_waiters, sem_value, sem_waiters, cache, pc, now, wait,
                   content, report, printed, aborted, running, cache0, cached_at_check,
                   throttle_calls, last_auth, prev_auth, sent, resp, failed_at,
                   file_ops>>

\* gather has returned and the process ended; it is started again on the
\* same list, configuration and RAW directory.
NextRun ==
    /\ ~aborted
    /\ \A t \in Tasks : pc[t] = "done"
    /\ run < MaxRuns
    /\ run' = run + 1
    /\ clock' = 0
    /\ next_send_time' = 0
    /\ lock_holder' = 0
    /\ lock_waiters' = <<>>
    /\ sem_value' = CONCURRENCY
    /\ sem_waiters' = <<>>
    /\ pc' = [t \in Tasks |-> "init"]
    /\ now' = [t \in Tasks |-> -1]
    /\ wait' = [t \in Tasks |-> 0]
    /\ content' = [t \in Tasks |-> ContentOf(JNull)]
    /\ report' = [t \in Tasks |-> "none"]
    /\ printed' = [t \in Tasks |-> 0]
    /\ running' = 0
    /\ cache0' = cache
    /\ cached_at_check' = [t \in Tasks |-> "none"]
    /\ throttle_calls' = [t \in Tasks |-> 0]
    /\ last_auth' = -1
    /\ prev_auth' = -1
    /\ sent' = [t \in Tasks |-> 0]
    /\ resp' = [t \in Tasks |-> NoResp]
    /\ failed_at' = [t \in Tasks |-> "none"]
    /\ file_ops' = [t \in Tasks |-> 0]
    /\ retry_at' = [t \in Tasks |-> -1]
    /\ ticket' = [t \in Tasks |-> -1]
    /\ attempts' = [t \in Tasks |-> 0]
    /\ last_attempt' = -1
    /\ UNCHANGED <<config, cache, aborted>>

\* The transport's delay before the k-th retry of a connection: none
\* before the first, then 0.5 s, 1 s, ... (exponential backoff).
BackoffDelay(k) == IF k = 1 THEN 0 ELSE (TicksPerSecond \div 2) * (2 ^ (k - 2))

\* Line 92, inside client.post: the transport could not open the
\* connection (ConnectError, ConnectTimeout).  With a retry left it backs
\* off and will connect again; with none, the exception leaves client.post.
ConnectFailed(t) ==
    /\ MayRun(t)
    /\ pc[t] = "post"
    /\ IF attempts[t] <= RETRIES
       THEN /\ pc' = [pc EXCEPT ![t] = "backoff"]
            /\ retry_at' = [retry_at EXCEPT ![t] = clock + BackoffDelay(attempts[t])]
            /\ UNCHANGED <<resp, report, printed, sem_value, sem_waiters, failed_at, aborted>>
       ELSE /\ resp' = [resp EXCEPT ![t] = NetError]
            /\ Raise(t, "Exception", "post")
            /\ retry_at' = retry_at
    /\ running' = 0
    /\ UNCHANGED <<config, run, clock, next_send_time, lock_holder, lock_waiters,
                   cache, now, wait, content, cache0, cached_at_check,
                   throttle_calls, last_auth, prev_auth, sent, file_ops, ticket,
                   attempts, last_attempt>>

\* Line 92, inside client.post: the backoff is over and the transport
\* makes its next attempt, without a call of throttle().
ConnectRetry(t) ==
    /\ MayRun(t)
    /\ pc[t] = "backoff"
    /\ clock >= retry_at[t]
    /\ pc' = [pc EXCEPT ![t] = "post"]
    /\ retry_at' = [retry_at EXCEPT ![t] = -1]
    /\ attempts' = [attempts EXCEPT ![t] = @ + 1]
    /\ last_attempt' = clock
    /\ running' = 0
    /\ UNCHANGED <<config, run, clock, next_send_time, lock_holder, lock_waiters,
                   sem_value, sem_waiters, cache, now, wait, content, report, printed,
                   aborted, cache0, cached_at_check, throttle_calls, last_auth,
                   prev_auth, sent, resp, failed_at, file_ops, ticket>>

\* Time passes while a transport backs off.
TickBackoff ==
    /\ startup = "ok"
    /\ ~aborted
    /\ running = 0
    /\ \E t \in Tasks : pc[t] = "backoff" /\ clock < retry_at[t]
    /\ clock' = clock + 1
    /\ UNCHANGED <<config, run, next_send_time, lock_holder, lock_waiters,
                   sem_value, sem_waiters, cache, pc, now, wait, content, report, printed,
                   aborted, running, retry_at, cache0, cached_at_check,
                   throttle_calls, last_auth, prev_auth, sent, resp, failed_at,
                   file_ops, ticket, attempts, last_attempt>>

Next ==
    \/ \E t \in Tasks : RunOne(t)
    \/ \E t \in Tasks : CacheCheck(t)
    \/ \E t \in Tasks : LockAcquire(t)
    \/ \E t \in Tasks : ThrottleEnter(t)
    \/ \E t \in Tasks : Wake(t)
    \/ \E t \in Tasks : PostReturn(t)
    \/ \E t \in Tasks : OpenFile(t)
    \/ \E t \in Tasks : WriteFile(t)
    \/ Tick

\* One run of the process over every list of up to MaxTasks lines.
Spec == Init /\ [][Next]_vars

\* Consecutive runs of the process over the same list and RAW directory,
\* for lists of up to MaxRerunTasks lines.
InitRerun == Init /\ Len(urls) <= MaxRerunTasks

NextRerun == Next \/ NextRun

SpecRerun == InitRerun /\ [][NextRerun]_vars

\* One run over a list of one line, the API answering with any envelope of
\* DecoderEnvelopes.  (A single task never sleeps in throttle.)
InitDecode == Init /\ Len(urls) = 1

NextDecode ==
    \/ \E t \in Tasks : RunOne(t)
    \/ \E t \in Tasks : CacheCheck(t)
    \/ \E t \in Tasks : LockAcquire(t)
    \/ \E t \in Tasks : ThrottleEnter(t)
    \/ \E t \in Tasks : PostReturnFrom(t, DecoderOutcomes)
    \/ \E t \in Tasks : OpenFile(t)
    \/ \E t \in Tasks : WriteFile(t)
    \/ Tick

SpecDecode == InitDecode /\ [][NextDecode]_vars

\* One run over a list of up to MaxRerunTasks lines, for every environment:
\* the key absent, empty or set; ZYTE_CONCURRENCY and ZYTE_JITTER a number
\* from -1 up, or text that is no number.
InitConfig ==
    Start({ TextOf(l) : l \in { m \in UrlLists : Len(m) <= MaxRerunTasks } },
          {JNull, JStr(StrEmpty), JStr(StrKey)},
          {NonNumeric} \cup { Num(c) : c \in (-1)..MaxConcurrency },
          {NonNumeric} \cup { Num(j) : j \in (-1)..MaxJitter },
          {Unset}, {Unset})

SpecConfig == InitConfig /\ [][Next]_vars

\* One run over a list of MaxTasks + 1 lines naming one URL, with a slot of
\* the semaphore for every task, so that every task reaches the throttle
\* at once and several wait for the lock together.
FifoList == [i \in 1..(MaxTasks + 1) |-> 1]

InitFifo ==
    Start({TextOf(FifoList)}, {JStr(StrKey)}, {Num(MaxTasks + 1)}, {Num(0)},
          {Unset}, {Unset})

\* client.post fails, or returns a body that decodes.
PlainOutcomes == {NetError, Response(200, EnvHello)}

NextPlain ==
    \/ \E t \in Tasks : RunOne(t)
    \/ \E t \in Tasks : CacheCheck(t)
    \/ \E t \in Tasks : LockAcquire(t)
    \/ \E t \in Tasks : ThrottleEnter(t)
    \/ \E t \in Tasks : Wake(t)
    \/ \E t \in Tasks : PostReturnFrom(t, PlainOutcomes)
    \/ \E t \in Tasks : OpenFile(t)
    \/ \E t \in Tasks : WriteFile(t)
    \/ Tick

SpecFifo == InitFifo /\ [][NextPlain]_vars

\* One run over a list of up to MaxRerunTasks lines, for every setting of
\* the rate and of the minimum interval: absent, text that is no number, a
\* rate of 0, 1, 2 or 4 requests per second, an interval of 0, 1 or 3 ticks.
RateSettings == {Unset, NonNumeric} \cup { Num(r) : r \in {0, 1, 2, 4} }
IntervalSettings == {Unset, NonNumeric} \cup { Num(i) : i \in {0, 1, 3} }

InitInterval ==
    Start({ TextOf(l) : l \in { m \in UrlLists : Len(m) <= MaxRerunTasks } },
          {JStr(StrKey)}, {Num(MaxConcurrency)}, {Num(0)},
          RateSettings, IntervalSettings)

SpecInterval == InitInterval /\ [][Next]_vars

\* One run for every urls.txt of Texts (that names at most MaxTasks URLs),
\* the tasks running one at a time.
InitParse ==
    Start({ x \in Texts : Len(ReadUrls(x)) <= MaxTasks }, {JStr(StrKey)},
          {Num(1)}, {Num(0)}, {Unset}, {Unset})

SpecParse == InitParse /\ [][NextPlain]_vars

\* One run over a list of up to MaxRerunTasks lines in which fetch can end
\* in each of its ways: besides the outcomes of Outcomes, a 200 response
\* whose body is no JSON (r.json() raises) and one whose JSON is a number
\* (`"httpResponseBody" in data` raises TypeError).
ReportOutcomes == Outcomes \cup {Response(200, NotJson), Response(200, JNum)}

NextReport ==
    \/ \E t \in Tasks : RunOne(t)
    \/ \E t \in Tasks : CacheCheck(t)
    \/ \E t \in Tasks : LockAcquire(t)
    \/ \E t \in Tasks : ThrottleEnter(t)
    \/ \E t \in Tasks : Wake(t)
    \/ \E t \in Tasks : PostReturnFrom(t, ReportOutcomes)
    \/ \E t \in Tasks : OpenFile(t)
    \/ \E t \in Tasks : WriteFile(t)
    \/ Tick

SpecReport == InitRerun /\ [][NextReport]_vars

\* One run over a list of up to MaxRerunTasks lines, with the attempts that
\* the transport makes inside one client.post call: each attempt to connect
\* may fail and is then made again, up to RETRIES times; a response of any
\* status, and an error after the connection was made, end the call.
TransportOutcomes ==
    {NetError, Response(404, JNull), Response(503, JNull), Response(200, EnvHello)}

NextTransport ==
    \/ \E t \in Tasks : RunOne(t)
    \/ \E t \in Tasks : CacheCheck(t)
    \/ \E t \in Tasks : LockAcquire(t)
    \/ \E t \in Tasks : ThrottleEnter(t)
    \/ \E t \in Tasks : Wake(t)
    \/ \E t \in Tasks : ConnectFailed(t)
    \/ \E t \in Tasks : ConnectRetry(t)
    \/ \E t \in Tasks : PostReturnFrom(t, TransportOutcomes)
    \/ \E t \in Tasks : OpenFile(t)
    \/ \E t \in Tasks : WriteFile(t)
    \/ Tick
    \/ TickBackoff

InitTransport == InitRerun /\ JITTER = 0

SpecTransport == InitTransport /\ [][NextTransport]_vars

\* One run over a list of up to MaxRerunTasks lines, under the scheduling of
\* the event loop: every task that is ready to run is run (the loop's ready
\* queue is first in, first out), every client.post returns or raises
\* within its timeout, and time passes.
TaskStep(t) ==
    /\ t \in Tasks
    /\ \/ RunOne(t) \/ CacheCheck(t) \/ LockAcquire(t) \/ ThrottleEnter(t)
       \/ Wake(t) \/ PostReturn(t) \/ OpenFile(t) \/ WriteFile(t)

Fairness == WF_vars(Tick) /\ \A t \in 1..MaxRerunTasks : WF_vars(TaskStep(t))

SpecLive == InitRerun /\ [][Next]_vars /\ Fairness

(* ============================ properties =============================== *)

Done(t) == pc[t] = "done"

AllDone == \A t \in Tasks : Done(t)

\* A Cache Entry that exists and is non-empty, in cache c.
EntryNonEmpty(c, k) == c[k].exists /\ c[k].data # <<>>

\* No other line of the list names the URL of task t.
UniqueUrl(t) == \A j \in Tasks : j # t => urls[j] # urls[t]

\* The outcome of a finished task, as section 3 of the specification
\* classifies it: a cache hit, bytes persisted, or neither.
Skipped(t) == Done(t) /\ cached_at_check[t] = "yes" /\ sent[t] = 0

Persisted(t) == Done(t) /\ failed_at[t] = "none" /\ file_ops[t] = 2

\* An envelope with none of the recognized shapes: a bare string, or an
\* object with neither a body field (a string, or an object with a data or
\* text sub-field) nor a rendered-page field.
Unrecognized(d) ==
    \/ d.t = "str"
    \/ /\ d.t = "dict"
       /\ "browserHtml" \notin DOMAIN d.f
       /\ \/ "httpResponseBody" \notin DOMAIN d.f
          \/ /\ d.f["httpResponseBody"].t # "str"
             /\ \/ d.f["httpResponseBody"].t # "dict"
                \/ DOMAIN d.f["httpResponseBody"].f \cap {"data", "text"} = {}

OpenPosts == { t \in Tasks : pc[t] = "post" }

(* C1: the times at which throttle() returns are at least MIN_INTERVAL      *)
(* apart: each return is at least MIN_INTERVAL after the one before it.     *)
C1_AuthorizationsSpaced ==
    prev_auth >= 0 => last_auth - prev_auth >= MIN_INTERVAL

(* C2: at no time are more than CONCURRENCY tasks inside client.post.       *)
C2_ConcurrencyBound == Cardinality(OpenPosts) <= CONCURRENCY

C2_Witness ==
    /\ CONCURRENCY = 2
    /\ Cardinality(OpenPosts) = 2
    /\ \E t \in Tasks : pc[t] = "sem_wait"

(* C3: a task that finds a non-empty Cache Entry for its target at its     *)
(* cache check ends there as Skipped: it has called neither throttle() nor *)
(* client.post, it has opened or written no file, and the step leaves      *)
(* next_send_time and the cache as they were.                              *)
C3_CachedIsSkipped ==
    /\ [](\A t \in Tasks :
            cached_at_check[t] = "yes" =>
                /\ Done(t)
                /\ report[t] = "ok"
                /\ throttle_calls[t] = 0
                /\ sent[t] = 0
                /\ file_ops[t] = 0)
    /\ [][\A t \in Tasks :
            (pc[t] = "check" /\ EntryNonEmpty(cache, Key(urls[t])) /\ pc'[t] # "check") =>
                /\ pc'[t] = "done"
                /\ next_send_time' = next_send_time
                /\ cache' = cache]_vars

C3_Witness ==
    /\ run = 2
    /\ \E t \in Tasks :
        /\ EntryNonEmpty(cache0, Key(urls[t]))
        /\ Skipped(t)
        /\ \E j \in Tasks : sent[j] = 1

(* C4: a run that starts with a non-empty Cache Entry for every target of  *)
(* its list makes no throttle() and no client.post call, and leaves the    *)
(* cache as it found it.                                                   *)
C4_RerunMakesNoCalls ==
    (\A t \in Tasks : EntryNonEmpty(cache0, Key(urls[t]))) =>
        /\ \A t \in Tasks : sent[t] = 0 /\ throttle_calls[t] = 0
        /\ cache = cache0

C4_Witness ==
    /\ run = 2
    /\ urls = <<1, 2>>
    /\ AllDone
    /\ \A t \in Tasks : EntryNonEmpty(cache0, Key(urls[t])) /\ Skipped(t)

(* C5: after a task has ended with its bytes persisted and an ok line, the *)
(* Cache Entry of its target exists and is non-empty.                      *)
C5_SuccessIsCached ==
    \A t \in Tasks :
        (Persisted(t) /\ report[t] = "ok") => EntryNonEmpty(cache, Key(urls[t]))

(* C6: no exception leaves the pool; a target whose request fails is       *)
(* reported failed, with the stage of the failure; and every target named  *)
(* on one line only, whose own request, decoding and write succeed, is     *)
(* reported ok and cached with the decoded bytes, whatever happens to the  *)
(* other targets.                                                          *)
C6_FailuresIsolated ==
    /\ ~aborted
    /\ \A t \in Tasks :
        /\ (Done(t) /\ (resp[t] = NetError
                         \/ (resp[t].kind = "response" /\ resp[t].status # 200)))
              => (report[t] = "fail" /\ failed_at[t] \in {"post", "status"})
        /\ (Done(t) /\ resp[t] = Response(200, EnvHello)
                    /\ failed_at[t] = "none" /\ UniqueUrl(t))
              => (report[t] = "ok"
                   /\ cache[Key(urls[t])] = [exists |-> TRUE, data |-> BytesHello])

C6_Witness ==
    /\ urls = <<1, 2, 3>>
    /\ AllDone
    /\ resp[2] = NetError /\ report[2] = "fail"
    /\ \A t \in {1, 3} :
        /\ resp[t] = Response(200, EnvHello)
        /\ report[t] = "ok"
        /\ cache[Key(urls[t])] = [exists |-> TRUE, data |-> BytesHello]

(* C7: a task whose response envelope has none of the recognized shapes is *)
(* reported as a failure.                                                  *)
C7_UnrecognizedIsFailed ==
    \A t \in Tasks :
        (Done(t) /\ resp[t].kind = "response" /\ resp[t].status = 200
                 /\ Unrecognized(resp[t].body))
            => report[t] = "fail"

(* C8: a task whose client.post raised, whose response had a non-2xx       *)
(* status, or whose envelope had none of the recognized shapes has opened  *)
(* and written no file, and the Cache Entry of its target (when no other   *)
(* line names it) is as the run found it.                                  *)
C8_FailedPersistsNothing ==
    \A t \in Tasks :
        (Done(t) /\ (\/ resp[t] = NetError
                     \/ (resp[t].kind = "response" /\ resp[t].status # 200)
                     \/ (resp[t].kind = "response" /\ resp[t].status = 200
                          /\ Unrecognized(resp[t].body))))
            => /\ file_ops[t] = 0
               /\ UniqueUrl(t) => cache[Key(urls[t])] = cache0[Key(urls[t])]

C8_Witness ==
    /\ urls = <<1, 2, 3>>
    /\ AllDone
    /\ resp[1] = NetError
    /\ resp[2] = Response(404, JNull)
    /\ resp[3] = Response(200, EnvUnknown)
    /\ \A t \in Tasks : cache[Key(urls[t])] = NoFile

(* C9: the report of a run tells a cache hit from a fresh success: a       *)
(* target that was skipped and another target whose bytes were persisted   *)
(* in the same run, and are cached, are not reported by the same line.     *)
C9_ReportTellsOutcome ==
    \A t1, t2 \in Tasks :
        (/\ urls[t1] # urls[t2]
         /\ Skipped(t1)
         /\ Persisted(t2) /\ EntryNonEmpty(cache, Key(urls[t2])))
            => report[t1] # report[t2]

(* C10: targets [/1, /2], concurrency 2, MIN_INTERVAL 0.5 s, empty cache,  *)
(* the body "aGVsbG8=" for /1 and an unrecognized envelope for /2: in the  *)
(* end the Cache Entry of /1 holds "hello", /2 has no Cache Entry, one     *)
(* target is reported ok and one failed, and the two throttle() returns    *)
(* are at least MIN_INTERVAL apart.                                        *)
C10_EndToEnd ==
    (/\ urls = <<1, 2>>
     /\ CONCURRENCY = 2
     /\ AllDone
     /\ resp[1] = Response(200, EnvHello) /\ failed_at[1] = "none"
     /\ resp[2] = Response(200, EnvUnknown))
        => /\ cache[Key(1)] = [exists |-> TRUE, data |-> BytesHello]
           /\ ~cache[Key(2)].exists
           /\ Cardinality({ t \in Tasks : report[t] = "ok" }) = 1
           /\ Cardinality({ t \in Tasks : report[t] = "fail" }) = 1
           /\ prev_auth >= 0 /\ last_auth - prev_auth >= MIN_INTERVAL

\* An envelope with a rendered-page field and a body field that is a string
\* or an object with a data or text sub-field; the value of that body field;
\* a task that holds its decoded content.
CarriesBodyAndPage(d) ==
    /\ d.t = "dict"
    /\ {"httpResponseBody", "browserHtml"} \subseteq DOMAIN d.f
    /\ \/ d.f["httpResponseBody"].t = "str"
       \/ /\ d.f["httpResponseBody"].t = "dict"
          /\ DOMAIN d.f["httpResponseBody"].f \cap {"data", "text"} # {}

BodyFieldValue(d) ==
    LET h == d.f["httpResponseBody"] IN
    IF h.t = "str" THEN h
    ELSE IF "data" \in DOMAIN h.f /\ Truthy(h.f["data"]) THEN h.f["data"]
    ELSE IF "text" \in DOMAIN h.f THEN h.f["text"]
    ELSE h.f["data"]

Decoded(t) == pc[t] \in {"open", "write"}

(* C11: for every envelope that carries a body field (a string, or an      *)
(* object with a data or text sub-field) and a rendered-page field, the    *)
(* content that fetch goes on to write is the decoding of the body field,  *)
(* never of the rendered page.                                             *)
C11_BodyBeforePage ==
    \A t \in Tasks :
        (resp[t].kind = "response" /\ CarriesBodyAndPage(resp[t].body))
            => (Decoded(t) => content[t] = ContentOf(BodyFieldValue(resp[t].body)))

(* C11, amended: the same for every envelope whose body value is not       *)
(* empty (a non-empty string, or an object whose data or text sub-field is *)
(* a non-empty value).                                                     *)
C11_NonEmptyBodyBeforePage ==
    \A t \in Tasks :
        (/\ resp[t].kind = "response" /\ CarriesBodyAndPage(resp[t].body)
         /\ Truthy(BodyFieldValue(resp[t].body)))
            => (Decoded(t) => content[t] = ContentOf(BodyFieldValue(resp[t].body)))

C11_Witness ==
    \E t \in Tasks :
        /\ pc[t] = "write"
        /\ resp[t].body = JDict([httpResponseBody |-> JDict([data |-> JStr(StrEmpty),
                                                            text |-> JStr(StrHelloB64)]),
                                 browserHtml |-> JStr(StrHtml)])
        /\ content[t] = [bytes |-> TRUE, data |-> BytesHello]

(* C12: a Cache Entry that is non-empty holds the complete decoded content *)
(* of its target's response, in every reachable state, a failed write      *)
(* included (for a target named on one line, in a run that began with an   *)
(* empty cache).                                                           *)
C12_EntryIsComplete ==
    \A t \in Tasks :
        (UniqueUrl(t) /\ EntryNonEmpty(cache, Key(urls[t])))
            => /\ resp[t].kind = "response"
               /\ cache[Key(urls[t])].data = Decode(resp[t].body).content.data

(* C13: once a Cache Entry holds non-empty content, no step of any task    *)
(* changes or removes that content, whatever the list (the same URL may    *)
(* occur on several lines).                                                *)
C13_NonEmptyEntryIsKept ==
    [][\A k \in Keys : EntryNonEmpty(cache, k) => cache'[k] = cache[k]]_vars

NothingStarted ==
    /\ \A t \in Tasks :
        /\ pc[t] = "init"
        /\ throttle_calls[t] = 0 /\ sent[t] = 0 /\ file_ops[t] = 0
    /\ lock_holder = 0
    /\ cache = cache0

(* C15: when the API key is absent or empty the process stops at startup:  *)
(* no task starts, throttle() is never called, no request is sent and the  *)
(* cache is not written.                                                   *)
C15_NoKeyIsFatal ==
    (API_KEY = JNull \/ API_KEY = JStr(StrEmpty))
        => (startup = "SystemExit" /\ NothingStarted)

C15_Witness ==
    /\ API_KEY = JStr(StrEmpty)
    /\ startup = "SystemExit"
    /\ urls = <<1, 2>>
    /\ CONCURRENCY = 2 /\ JITTER = 0

(* C16: a concurrency limit of 0 or less, or a negative jitter, is a fatal *)
(* error at startup: no task starts.                                       *)
C16_InvalidConfigIsFatal ==
    (CONCURRENCY <= 0 \/ JITTER < 0) => NothingStarted

\* The tasks between lines 33 and 43 of throttle.
InThrottle == { t \in Tasks : pc[t] \in {"throttle", "sleep"} }

(* C17: the read of the clock, the wait and the update of next_send_time   *)
(* are one critical section: at most one task is in it at any time, also   *)
(* while that task sleeps, and it holds the lock; next_send_time is        *)
(* written only by the task in the section, as it leaves; and while a task *)
(* sleeps, next_send_time is still the value that task read.               *)
C17_CriticalSection ==
    /\ [](/\ Cardinality(InThrottle) <= 1
          /\ \A t \in InThrottle :
                /\ lock_holder = t
                /\ pc[t] = "sleep" => next_send_time = now[t] + wait[t])
    /\ [][next_send_time' # next_send_time =>
            \E t \in InThrottle :
                /\ lock_holder = t
                /\ pc'[t] = "post"
                /\ \A u \in Tasks \ {t} : pc'[u] # "sleep"]_vars

C17_Witness ==
    \E t, u \in Tasks :
        /\ pc[t] = "sleep" /\ lock_holder = t /\ clock > now[t]
        /\ pc[u] = "lock_wait"

(* C18: each completed call of throttle() sets next_send_time to           *)
(* max(now, old next_send_time) + gap, where now is the clock the task     *)
(* read on entering the section (before its wait, if it waited) and gap is *)
(* MIN_INTERVAL without jitter and between MIN_INTERVAL and                *)
(* MIN_INTERVAL + JITTER with it.                                          *)
C18_NextSendTimeFormula ==
    [][\A t \in Tasks :
         sent'[t] = sent[t] + 1 =>
            LET n == IF pc[t] = "sleep" THEN now[t] ELSE clock IN
            /\ pc[t] = "sleep" => now[t] + wait[t] = next_send_time /\ now[t] < clock
            /\ \E gap \in MIN_INTERVAL..(MIN_INTERVAL + JITTER) :
                 next_send_time' = Max(n, next_send_time) + gap]_vars

C18_Witness ==
    /\ JITTER = 1
    /\ prev_auth = 0 /\ last_auth = 3
    /\ next_send_time = 4

(* C19: within a task the steps come in the order cache check, throttle,   *)
(* request, decoding, write: a task that has sent its request found no     *)
(* Cache Entry at its check and has completed one throttle() call, the     *)
(* request is sent in the step in which throttle() returns, and a task     *)
(* that opens or writes the file has received a 200 response with a        *)
(* recognized envelope.                                                    *)
C19_StepOrder ==
    /\ [](\A t \in Tasks :
            /\ throttle_calls[t] <= 1 /\ sent[t] <= throttle_calls[t]
            /\ throttle_calls[t] = 1 => cached_at_check[t] = "no"
            /\ sent[t] = 1 => pc[t] \in {"post", "open", "write", "done"}
            /\ sent[t] = 0 => resp[t] = NoResp
            /\ (pc[t] \in {"open", "write"} \/ file_ops[t] >= 1) =>
                  /\ sent[t] = 1
                  /\ resp[t].kind = "response" /\ resp[t].status = 200
                  /\ ~Unrecognized(resp[t].body))
    /\ [][\A t \in Tasks :
            /\ sent'[t] # sent[t] => (pc[t] \in {"throttle", "sleep"} /\ pc'[t] = "post")
            /\ resp'[t] # resp[t] => pc[t] = "post"
            /\ file_ops'[t] # file_ops[t] => pc[t] \in {"open", "write"}]_vars

C19_Witness ==
    /\ urls = <<1, 1>>
    /\ CONCURRENCY = 1
    /\ Persisted(1) /\ report[1] = "ok"
    /\ Skipped(2) /\ report[2] = "ok"

\* A task that missed at its cache check and has its write still ahead.
PastCheck(t) ==
    /\ cached_at_check[t] = "no"
    /\ pc[t] \in {"lock", "lock_wait", "throttle", "sleep", "post", "open", "write"}

(* C20: no two tasks contend on one Cache Entry: whatever the list, never  *)
(* have two tasks both passed the cache check for the same Cache Key with  *)
(* their request and their write of the same file still ahead.             *)
C20_NoContention ==
    \A t, u \in Tasks :
        (t # u /\ Key(urls[t]) = Key(urls[u])) => ~(PastCheck(t) /\ PastCheck(u))

\* The envelope's body field gives a value to decode: a non-empty string,
\* or an object whose data or text sub-field is a non-empty value.
HasUsableBody(d) ==
    /\ "httpResponseBody" \in DOMAIN d.f
    /\ LET h == d.f["httpResponseBody"] IN
       \/ h.t = "str" /\ h.s # <<>>
       \/ h.t = "dict" /\ \E k \in DOMAIN h.f : Truthy(h.f[k])

\* The content comes from the rendered-page field.
FromPage(t) ==
    /\ resp[t].kind = "response" /\ resp[t].status = 200
    /\ resp[t].body.t = "dict"
    /\ "browserHtml" \in DOMAIN resp[t].body.f
    /\ ~HasUsableBody(resp[t].body)

(* C21: when the content comes from the rendered-page field (the envelope  *)
(* has no usable body field), the content that fetch goes on to write is   *)
(* the text of that field, byte for byte: base64 decoding is not applied.  *)
C21_PageUsedDirectly ==
    \A t \in Tasks :
        (FromPage(t) /\ Decoded(t))
            => content[t] = [bytes |-> TRUE, data |-> Utf8(resp[t].body.f["browserHtml"].s)]

\* The body was obtained from the body field, and is a string.
FromBodyString(t) ==
    /\ resp[t].kind = "response" /\ resp[t].status = 200
    /\ resp[t].body.t = "dict"
    /\ HasUsableBody(resp[t].body)
    /\ BodyFieldValue(resp[t].body).t = "str"

\* "err", as bytes, and the UTF-8 bytes of "\u00e9"
BytesErr == <<101, 114, 114>>
BytesNonAscii == <<195, 169>>

(* C22: when the body was obtained from the body field as a string (the    *)
(* field itself, or the data or text sub-field of a structured body), the  *)
(* content that fetch writes is the base64 decoding of the string when     *)
(* b64decode accepts it and the bytes of the string itself when it does    *)
(* not ("aGVsbG8=" gives b"hello", "err" gives b"err", "\u00e9" gives its   *)
(* two UTF-8 bytes); the task fails only if the open or the write fails,   *)
(* never because of the decoding, and a task that ends with its write done *)
(* leaves exactly that content in the entry.                               *)
C22_DecodeOrRawBytes ==
    \A t \in Tasks :
        FromBodyString(t) =>
            LET s == BodyFieldValue(resp[t].body).s
                expected == IF B64Decode(s).ok THEN B64Decode(s).bytes ELSE Utf8(s)
            IN  /\ s = StrHelloB64 => expected = BytesHello
                /\ s = StrErr => expected = BytesErr
                /\ s = StrNonAscii => expected = BytesNonAscii
                /\ Decoded(t) => content[t] = [bytes |-> TRUE, data |-> expected]
                /\ failed_at[t] \in {"none", "open", "write"}
                /\ report[t] = "fail" => failed_at[t] \in {"open", "write"}
                /\ Persisted(t) => cache[Key(urls[t])] = [exists |-> TRUE, data |-> expected]

C22_Witness ==
    \E t \in Tasks :
        /\ resp[t] = Response(200, JDict([httpResponseBody |-> JDict([data |-> JStr(StrErr)])]))
        /\ Persisted(t) /\ report[t] = "ok"
        /\ cache[Key(urls[t])] = [exists |-> TRUE, data |-> BytesErr]

(* C23: the pool never retries: in one run each task calls throttle() at   *)
(* most once and client.post at most once, whatever the outcome; once the  *)
(* call has returned or raised, the task makes no further call, and a task *)
(* whose response was a 4xx has ended as failed after its single send.     *)
C23_PoolNeverRetries ==
    /\ [](\A t \in Tasks :
            /\ sent[t] <= 1 /\ throttle_calls[t] <= 1
            /\ (resp[t].kind = "response" /\ resp[t].status \in 400..499) =>
                  (Done(t) /\ report[t] = "fail" /\ sent[t] = 1))
    /\ [][\A t \in Tasks :
            (resp[t] # NoResp \/ Done(t)) =>
                /\ sent'[t] = sent[t] /\ throttle_calls'[t] = throttle_calls[t]
                /\ resp'[t] = resp[t]
                /\ pc'[t] \notin {"lock", "lock_wait", "throttle", "sleep", "post"}]_vars

C23_Witness ==
    \E t, u \in Tasks :
        /\ resp[t] = Response(404, JNull)
        /\ Done(t) /\ report[t] = "fail" /\ sent[t] = 1 /\ throttle_calls[t] = 1
        /\ resp[u] = NetError /\ Done(u) /\ sent[u] = 1
        /\ AllDone

(* C24: a transient failure of a client.post call is retried by the        *)
(* transport up to RETRIES times before the task ends as failed: a task    *)
(* that has ended on a 5xx response has had 1 + RETRIES attempts made for  *)
(* it; and no call is attempted more than 1 + RETRIES times.               *)
C24_TransientIsRetried ==
    \A t \in Tasks :
        /\ attempts[t] <= 1 + RETRIES
        /\ (Done(t) /\ resp[t].kind = "response" /\ resp[t].status \in 500..599)
              => attempts[t] = 1 + RETRIES

(* C25: every request attempt, the retries of the transport included, has  *)
(* its own throttle authorization and is sent at least MIN_INTERVAL after  *)
(* the attempt before it.                                                  *)
C25_AttemptsArePaced ==
    [][\A t \in Tasks :
         attempts'[t] = attempts[t] + 1 =>
            /\ sent'[t] = sent[t] + 1
            /\ last_attempt >= 0 => clock >= last_attempt + MIN_INTERVAL]_vars

(* C26: the throttle authorizes the tasks in the order in which they       *)
(* called it: when throttle() returns to a task, every task that called    *)
(* throttle() before it has been authorized already and no task that       *)
(* called it later has, so the number of authorizations so far is the      *)
(* number of calls that began before its own.                              *)
C26_FirstComeFirstServed ==
    [][\A t \in Tasks : sent'[t] = sent[t] + 1 => ticket[t] = Total(sent)]_vars

C26_Witness ==
    \E t, u, w \in Tasks :
        /\ lock_holder = t /\ pc[t] = "sleep" /\ ticket[t] = 1
        /\ lock_waiters = <<u, w>> /\ ticket[u] = 2 /\ ticket[w] = 3
        /\ Total(sent) = 1

(* C27: with no minimum interval set directly, MIN_INTERVAL is 1/rate (for *)
(* the configured rate, or the default rate); with a minimum interval set  *)
(* directly, the process starts and uses that value as MIN_INTERVAL for    *)
(* every value of the rate, 0 included.                                    *)
C27_IntervalFromSettings ==
    /\ (ZYTE_MIN_INTERVAL = Unset /\ ZYTE_RPS.num /\ ZYTE_RPS.v > 0) =>
          (startup = "ok" /\ MIN_INTERVAL * ZYTE_RPS.v = TicksPerSecond)
    /\ (ZYTE_MIN_INTERVAL = Unset /\ ZYTE_RPS = Unset) =>
          (startup = "ok" /\ MIN_INTERVAL * DefaultRps = TicksPerSecond)
    /\ (ZYTE_MIN_INTERVAL.num /\ (ZYTE_RPS.num \/ ZYTE_RPS = Unset)) =>
          (startup = "ok" /\ MIN_INTERVAL = ZYTE_MIN_INTERVAL.v)

\* The lines of urls.txt, each named by the position of its first
\* character: a line is a longest stretch of characters without a line end
\* (a line ends at "\n", "\r", and at the other boundaries of splitlines,
\* form feed among them).
LineStarts ==
    { i \in 1..Len(text) :
        ~IsLineBoundary(text[i]) /\ (i = 1 \/ IsLineBoundary(text[i - 1])) }

LineEnd(i) ==
    CHOOSE j \in i..Len(text) :
        /\ \A k \in i..j : ~IsLineBoundary(text[k])
        /\ j = Len(text) \/ IsLineBoundary(text[j + 1])

\* The characters of the line that are not whitespace.
Inked(i) == { k \in i..LineEnd(i) : ~IsSpace(text[k]) }

NonBlankLines == { i \in LineStarts : Inked(i) # {} }

\* The n-th non-blank line, and its text without the surrounding whitespace.
NthLine(n) ==
    CHOOSE i \in NonBlankLines : Cardinality({ j \in NonBlankLines : j < i }) = n - 1

Trimmed(i) ==
    SubSeq(text, CHOOSE k \in Inked(i) : \A m \in Inked(i) : k <= m,
                 CHOOSE k \in Inked(i) : \A m \in Inked(i) : k >= m)

(* C28: the run has exactly one task per non-blank line of urls.txt, in    *)
(* the order of the lines, each for the text of its line without the       *)
(* surrounding whitespace (two tasks have the same URL exactly when their  *)
(* trimmed lines are equal); empty and whitespace-only lines give no task, *)
(* and every task is started and ends with one report.                     *)
C28_OneTaskPerLine ==
    /\ Cardinality(Tasks) = Cardinality(NonBlankLines)
    /\ Tasks = 1..Cardinality(NonBlankLines)
    /\ DOMAIN pc = Tasks /\ DOMAIN report = Tasks
    /\ \A n \in Tasks : url_text[n] = Trimmed(NthLine(n))
    /\ \A m, n \in Tasks : (urls[m] = urls[n]) <=> (Trimmed(NthLine(m)) = Trimmed(NthLine(n)))
    /\ \A n \in Tasks : Done(n) => report[n] \in {"ok", "fail"}
    /\ \A n \in Tasks : report[n] # "none" => Done(n)

C28_Witness ==
    /\ text = <<32, 10, 97, 32>>
    /\ url_text = <<(<<97>>)>>
    /\ Tasks = {1} /\ Done(1) /\ report[1] = "ok"

(* C29: whenever a call of throttle() has returned at clock time t, the    *)
(* stored next_send_time is at least t + MIN_INTERVAL, also when the task  *)
(* woke up later than the wait it had computed.                            *)
C29_SlotAfterReturn ==
    last_auth >= 0 => next_send_time >= last_auth + MIN_INTERVAL

(* C30: next_send_time never decreases; every completed throttle() call    *)
(* raises it by at least MIN_INTERVAL over its previous value, and no      *)
(* other step changes it: not the cache check, the return or failure of    *)
(* client.post, the decoding, the open or the write, so the slot of a task *)
(* whose request fails is not given back.                                  *)
C30_NextSendTimeGrows ==
    [][/\ next_send_time' >= next_send_time
       /\ \A t \in Tasks :
            sent'[t] = sent[t] + 1 => next_send_time' >= next_send_time + MIN_INTERVAL
       /\ next_send_time' # next_send_time => \E t \in Tasks : sent'[t] = sent[t] + 1
       /\ \A t \in Tasks :
            (pc[t] \in {"init", "sem_wait", "check", "post", "open", "write"}
                /\ pc'[t] # pc[t]) => next_send_time' = next_send_time]_vars

C30_Witness ==
    \E t, u \in Tasks :
        /\ Done(t) /\ report[t] = "fail" /\ failed_at[t] = "post" /\ sent[t] = 1
        /\ Done(u) /\ report[u] = "fail" /\ failed_at[u] = "write"
        /\ t < u
        /\ next_send_time >= 2 * MIN_INTERVAL

(* C31: a caller of throttle() is never authorized before the slot         *)
(* scheduled for it: throttle() returns at a clock time that is at least   *)
(* the value next_send_time had when the caller entered the critical       *)
(* section (the value is kept while the caller sleeps, and its sleep ends  *)
(* at that value or later).                                                *)
C31_NotBeforeSlot ==
    /\ [](\A t \in Tasks :
            pc[t] = "sleep" => (wait[t] > 0 /\ next_send_time = now[t] + wait[t]))
    /\ [][\A t \in Tasks : sent'[t] = sent[t] + 1 => clock >= next_send_time]_vars

C31_Witness ==
    /\ JITTER = 0
    /\ prev_auth = 0 /\ last_auth = MIN_INTERVAL
    /\ next_send_time = 2 * MIN_INTERVAL
    /\ clock = MIN_INTERVAL

(* C32: every task prints exactly one terminal line, ok or fail, never     *)
(* both and, once it has ended, never none: on a cache hit, a success, an  *)
(* exception of client.post, an error status, a body that is no JSON or   *)
(* no object, and a failed open or write.  The line is printed in the step *)
(* in which the task ends, and is a fail line exactly when fetch raised.   *)
C32_OneReport ==
    /\ [](\A t \in Tasks :
            /\ printed[t] <= 1
            /\ Done(t) <=> printed[t] = 1
            /\ printed[t] = 1 <=> report[t] \in {"ok", "fail"}
            /\ Done(t) => (report[t] = "fail" <=> failed_at[t] # "none"))
    /\ [][\A t \in Tasks :
            printed'[t] # printed[t] =>
                (pc[t] \in {"check", "post", "open", "write"} /\ pc'[t] = "done")]_vars

\* The stages at which fetch raised, over the tasks of the run.
FailedStages == { failed_at[t] : t \in Tasks }

C32_Witness ==
    /\ Len(urls) = 2 /\ AllDone
    /\ \A t \in Tasks : printed[t] = 1
    /\ FailedStages = {"json", "decode"}
    /\ report = <<"fail", "fail">>

\* The task is inside `async with sem`: it holds a slot.
HoldsSlot(t) == pc[t] \notin {"init", "sem_wait", "done"}

\* The task is inside `async with _throttle_lock`.
InLock(t) == pc[t] \in {"throttle", "sleep"}

(* C33: concurrency slots are conserved: in every reachable state the      *)
(* number of tasks holding a slot plus the number of free slots is the     *)
(* concurrency limit, a task that has ended (skipped, success or failed)   *)
(* holds none, and tasks wait for a slot only when none is free; the       *)
(* throttle lock is held exactly by the task that is inside throttle(),    *)
(* so it is released at every return; and when every task has ended all   *)
(* slots and the lock are free and nobody waits.                           *)
C33_SlotsConserved ==
    /\ Cardinality({ t \in Tasks : HoldsSlot(t) }) + sem_value = CONCURRENCY
    /\ sem_value >= 0
    /\ sem_waiters # <<>> => sem_value = 0
    /\ \A t \in Tasks : pc[t] = "sem_wait" <=> \E i \in DOMAIN sem_waiters : sem_waiters[i] = t
    /\ \A t \in Tasks : InLock(t) <=> lock_holder = t
    /\ lock_waiters # <<>> => lock_holder # 0
    /\ \A t \in Tasks : pc[t] = "lock_wait" <=> \E i \in DOMAIN lock_waiters : lock_waiters[i] = t
    /\ AllDone =>
          /\ sem_value = CONCURRENCY /\ sem_waiters = <<>>
          /\ lock_holder = 0 /\ lock_waiters = <<>>

C33_Witness ==
    /\ CONCURRENCY = 2 /\ Len(urls) = 3
    /\ AllDone
    /\ sem_value = 2 /\ lock_holder = 0
    /\ \E t, u, w \in Tasks :
          /\ Persisted(t) /\ Skipped(u)
          /\ report[w] = "fail" /\ failed_at[w] = "post"

====
